---- MODULE Spec2Model ----
(***************************************************************************)
(* Model of the mesh decoders of the dicom-stl-viewer repository:          *)
(*   parseSTL / parseBinary / parseASCII  (src/src/screens/StlViewer.tsx)  *)
(*   parsePlyAscii                        (src/unnamed/part_000)           *)
(*                                                                         *)
(* A text is a sequence of one-character strings, an ArrayBuffer a         *)
(* sequence of bytes (0..255).  A JavaScript number read from text is a    *)
(* record [t |-> "num", v |-> n], NaN is [t |-> "NaN", v |-> 0] and        *)
(* undefined is [t |-> "undefined", v |-> 0].  A float32 read from a       *)
(* DataView is the tuple of its four bytes in buffer order.                *)
(*                                                                         *)
(* The second half models the three viewer components that call the        *)
(* decoders (StlViewer, PlyViewer in src/unnamed/part_000, ObjViewer):     *)
(* their React state and refs, the handlers, the asynchronous load that    *)
(* onContextCreate starts, the pinch gesture and the animation loop.       *)
(* Lengths along the camera axis are written in units of 0.05, the zoom    *)
(* of one pixel of pinch, and angles in units of 0.0005 radian.            *)
(***************************************************************************)
EXTENDS Integers, Sequences, FiniteSets, TLC

VARIABLES
    arg,     \* the argument of the call: [type, bytes, chars]
    shape,   \* ghost: how the argument was built (family and parameters)
    called,  \* "none" before the call, then the name of the function called
    ret,     \* what the call returned or threw
    log,     \* history: the calls made so far, [fn, input, out] in call order
    viewer,        \* which viewer component this is: "stl", "ply" or "obj"
    fileUri,       \* useState: NoFile or the picked file (the number of its pick)
    loading,       \* useState
    autoRotate,    \* useState
    hasLoadedRef,  \* useRef(false).current
    meshRef,       \* meshRef.current: 0 (undefined) or the load that made the mesh
    cameraRef,     \* cameraRef.current: 0 (undefined) or the load that made the camera
    lastPinch,     \* lastPinch.current: NoPinch or a distance in pixels
    rotationY,     \* meshRef.current.rotation.y
    frames,        \* animation frame callbacks that have run
    loads,         \* the onContextCreate calls that passed the guard, see NewLoad
    alerts,        \* the Alert.alert calls made, in order
    taps,          \* handlePickFile calls made
    picking,       \* handlePickFile calls waiting for the document picker
    picks          \* document picker results that selected a file

decoderVars == <<arg, shape, called, ret, log>>
viewerVars ==
    <<viewer, fileUri, loading, autoRotate, hasLoadedRef, meshRef, cameraRef, lastPinch,
      rotationY, frames, loads, alerts, taps, picking, picks>>
vars == <<decoderVars, viewerVars>>

\* null in fileUri, picked files being numbered from 1, and null in
\* lastPinch.current, distances being 0 or more
NoFile == 0
NoPinch == 0 - 1

\* a viewer component of kind k after its first render
Constructed(k) ==
    /\ viewer = k
    /\ fileUri = NoFile
    /\ loading = FALSE
    /\ autoRotate = FALSE
    /\ hasLoadedRef = FALSE
    /\ meshRef = 0
    /\ cameraRef = 0
    /\ lastPinch = NoPinch
    /\ rotationY = 0
    /\ frames = 0
    /\ loads = <<>>
    /\ alerts = <<>>
    /\ taps = 0
    /\ picking = 0
    /\ picks = 0

----------------------------------------------------------------------------
(* Bounds of the checked inputs.                                           *)

MaxFaces == 2       \* triangles a binary buffer declares and carries
MaxBlocks == 2      \* facet blocks of an ASCII STL text
MaxVerts == 2       \* vertex rows declared / present in a PLY text
MaxFaceRows == 2    \* face rows declared / present in a PLY text
MaxCalls == 3       \* decode calls made one after the other

----------------------------------------------------------------------------
(* Characters and strings.                                                 *)

Printable ==
    << " ", "!", "\"", "#", "$", "%", "&", "'", "(", ")", "*", "+", ",", "-",
       ".", "/", "0", "1", "2", "3", "4", "5", "6", "7", "8", "9", ":", ";",
       "<", "=", ">", "?", "@", "A", "B", "C", "D", "E", "F", "G", "H", "I",
       "J", "K", "L", "M", "N", "O", "P", "Q", "R", "S", "T", "U", "V", "W",
       "X", "Y", "Z", "[", "\\", "]", "^", "_", "GRAVE", "a", "b", "c", "d", "e",
       "f", "g", "h", "i", "j", "k", "l", "m", "n", "o", "p", "q", "r", "s",
       "t", "u", "v", "w", "x", "y", "z", "{", "|", "}", "~" >>

\* TextDecoder (utf-8) on one byte of the checked inputs: ASCII bytes decode
\* to themselves; 0xFF is never valid UTF-8 and decodes to U+FFFD.
CharOf(b) ==
    IF b >= 32 /\ b <= 126 THEN Printable[b - 31]
    ELSE IF b = 9 THEN "\t"
    ELSE IF b = 10 THEN "\n"
    ELSE IF b = 13 THEN "\r"
    ELSE IF b = 0 THEN "NUL"
    ELSE "U+FFFD"

TextDecode(bytes) == [i \in 1..Len(bytes) |-> CharOf(bytes[i])]

\* The UTF-8 encoding of an ASCII text (how a text file reaches fetch()).
ByteOf(c) == CHOOSE b \in {0, 9, 10, 13} \cup (32..126) : CharOf(b) = c

Encode(chars) == [i \in 1..Len(chars) |-> ByteOf(chars[i])]

\* JavaScript white space (String.prototype.trim, regex \s) on these inputs.
WhiteSpace == {" ", "\t", "\n", "\r"}

Digits == <<"0", "1", "2", "3", "4", "5", "6", "7", "8", "9">>

IsDigit(c) == \E d \in 1..10 : Digits[d] = c

DigitVal(c) == (CHOOSE d \in 1..10 : Digits[d] = c) - 1

\* ArrayBuffer.prototype.slice / Array.prototype.slice(start, end) where the
\* bounds are records of JavaScript numbers: NaN counts as 0, a negative bound
\* counts from the end, both are clamped to the length.
RelIndex(n, len) ==
    IF n.t # "num" THEN 0
    ELSE IF n.v < 0 THEN (IF len + n.v < 0 THEN 0 ELSE len + n.v)
    ELSE IF n.v > len THEN len ELSE n.v

Slice(s, start, end) ==
    LET k == RelIndex(start, Len(s))
        f == RelIndex(end, Len(s))
    IN  IF f <= k THEN <<>> ELSE SubSeq(s, k + 1, f)

JsNum(n) == [t |-> "num", v |-> n]
JsNaN == [t |-> "NaN", v |-> 0]
JsUndefined == [t |-> "undefined", v |-> 0]

\* String.prototype.startsWith
StartsWith(s, p) == Len(s) >= Len(p) /\ SubSeq(s, 1, Len(p)) = p

\* whether p occurs in s at (1-based) position i
HasAt(s, i, p) == i >= 1 /\ i + Len(p) - 1 <= Len(s) /\ SubSeq(s, i, i + Len(p) - 1) = p

\* String.prototype.includes
Includes(s, p) == \E i \in 1..(Len(s) + 1) : HasAt(s, i, p)

\* String.prototype.trim
Trim(s) ==
    LET keep == {i \in 1..Len(s) : s[i] \notin WhiteSpace}
    IN  IF keep = {} THEN <<>>
        ELSE LET lo == CHOOSE i \in keep : \A j \in keep : i <= j
                 hi == CHOOSE i \in keep : \A j \in keep : j <= i
             IN  SubSeq(s, lo, hi)

----------------------------------------------------------------------------
(* Words the decoders look for.                                            *)

solid == <<"s", "o", "l", "i", "d">>
binary == <<"b", "i", "n", "a", "r", "y">>
facet == <<"f", "a", "c", "e", "t">>
normal == <<"n", "o", "r", "m", "a", "l">>
vertex == <<"v", "e", "r", "t", "e", "x">>
elementVertex == <<"e", "l", "e", "m", "e", "n", "t", " ", "v", "e", "r", "t", "e", "x">>
elementFace == <<"e", "l", "e", "m", "e", "n", "t", " ", "f", "a", "c", "e">>
property == <<"p", "r", "o", "p", "e", "r", "t", "y">>
end_header == <<"e", "n", "d", "_", "h", "e", "a", "d", "e", "r">>
red == <<"r", "e", "d">>

----------------------------------------------------------------------------
(* What a call leaves behind.                                              *)

NoReturn ==
    [status |-> "none", error |-> "", decoder |-> "none", format |-> "none",
     triangleCount |-> 0, position |-> <<>>, normal |-> <<>>,
     attributes |-> {}, hasIndex |-> FALSE, index |-> <<>>, color |-> <<>>,
     hasColors |-> FALSE, vCount |-> JsNum(0), fCount |-> JsNum(0)]

\* a RangeError thrown by a DataView read outside the buffer
Throw(decoder) ==
    [NoReturn EXCEPT !.status = "throw", !.error = "RangeError", !.decoder = decoder]

----------------------------------------------------------------------------
(* parseBinary                                                             *)

HeaderBytes == 80
CountEnd == 84
NormalBytes == 12
AttributeBytes == 2

\* DataView.getUint32(off, true) / getFloat32(off, true) throw a RangeError
\* unless the four bytes lie inside the buffer.
InView(buf, off) == off + 4 <= Len(buf)

GetUint32(buf, off) ==
    buf[off + 1] + 256 * buf[off + 2] + 65536 * buf[off + 3] + 16777216 * buf[off + 4]

GetFloat32(buf, off) == <<buf[off + 1], buf[off + 2], buf[off + 3], buf[off + 4]>>

\* the offsets one loop iteration reads, in the order it reads them
FaceReads(offset) == [k \in 1..12 |-> offset + 4 * (k - 1)]

\* a mutant of ReadFaces: the face normal is pushed once per face, not once
\* per vertex
RECURSIVE ReadFacesOneNormal(_, _, _, _, _, _)
ReadFacesOneNormal(buf, faces, i, offset, positions, normals) ==
    IF i >= faces THEN [status |-> "ok", positions |-> positions, normals |-> normals]
    ELSE IF \E k \in 1..12 : ~InView(buf, FaceReads(offset)[k])
    THEN [status |-> "throw", positions |-> positions, normals |-> normals]
    ELSE LET n == <<GetFloat32(buf, offset), GetFloat32(buf, offset + 4),
                    GetFloat32(buf, offset + 8)>>
             o == offset + NormalBytes
             v == [j \in 1..9 |-> GetFloat32(buf, o + 4 * (j - 1))]
         IN  ReadFacesOneNormal(buf, faces, i + 1, o + 36 + AttributeBytes,
                                positions \o v, normals \o n)

\* the body of the for loop over the faces: statuses "ok" and "throw"
RECURSIVE ReadFaces(_, _, _, _, _, _)
ReadFaces(buf, faces, i, offset, positions, normals) ==
    IF i >= faces THEN [status |-> "ok", positions |-> positions, normals |-> normals]
    ELSE IF \E k \in 1..12 : ~InView(buf, FaceReads(offset)[k])
    THEN [status |-> "throw", positions |-> positions, normals |-> normals]
    ELSE LET n == <<GetFloat32(buf, offset), GetFloat32(buf, offset + 4),
                    GetFloat32(buf, offset + 8)>>
             o == offset + NormalBytes
             v == [j \in 1..9 |-> GetFloat32(buf, o + 4 * (j - 1))]
         IN  ReadFaces(buf, faces, i + 1, o + 36 + AttributeBytes,
                       positions \o v, normals \o n \o n \o n)

parseBinary(buf) ==
    IF ~InView(buf, HeaderBytes) THEN Throw("binary")
    ELSE LET faces == GetUint32(buf, HeaderBytes)
             r == ReadFaces(buf, faces, 0, CountEnd, <<>>, <<>>)
         IN  IF r.status = "throw" THEN Throw("binary")
             ELSE [NoReturn EXCEPT !.status = "ok", !.decoder = "binary",
                                   !.triangleCount = faces,
                                   !.position = r.positions, !.normal = r.normals,
                                   !.attributes = {"position", "normal"}]

----------------------------------------------------------------------------
(* parseASCII: the regular expression of line 370 and the exec loop.       *)

\* the character class [eE\d\.\+\-]
NumClass == {"e", "E", ".", "+", "-"} \cup {Digits[d] : d \in 1..10}

\* The pattern, item by item: a literal, \s+ ("ws"), a captured
\* ([eE\d\.\+\-]+) ("num"), or the lazy [\s\S]*? ("lazy").
Lit(w) == [t |-> "lit", s |-> w]
Ws == [t |-> "ws", s |-> <<>>]
NumCap == [t |-> "num", s |-> <<>>]
LazyAny == [t |-> "lazy", s |-> <<>>]

ThreeNums == <<NumCap, Ws, NumCap, Ws, NumCap>>

pattern ==
    <<Lit(facet), Ws, Lit(normal), Ws>> \o ThreeNums
    \o <<LazyAny, Lit(vertex), Ws>> \o ThreeNums
    \o <<LazyAny, Lit(vertex), Ws>> \o ThreeNums
    \o <<LazyAny, Lit(vertex), Ws>> \o ThreeNums

NoMatch == [ok |-> FALSE, end |-> 0, caps |-> <<>>]

\* the length of the longest run of characters of class cls that starts at pos
RunLen(text, pos, cls) ==
    LET stops == {j \in pos..Len(text) : text[j] \notin cls}
    IN  IF stops = {} THEN Len(text) - pos + 1
        ELSE (CHOOSE j \in stops : \A q \in stops : j <= q) - pos

\* A backtracking match of pattern items k.. at position pos, in the order a
\* backtracking engine tries the alternatives: a greedy X+ tries its longest
\* run first and gives characters back one by one, the lazy [\s\S]*? tries the
\* shortest skip first.  end is the position after the match, caps the
\* captured groups in order.
RECURSIVE MatchFrom(_, _, _, _), GreedyRun(_, _, _, _, _, _), LazyRun(_, _, _, _)
MatchFrom(pat, text, k, pos) ==
    IF k > Len(pat) THEN [ok |-> TRUE, end |-> pos, caps |-> <<>>]
    ELSE CASE pat[k].t = "lit" ->
                IF HasAt(text, pos, pat[k].s)
                THEN MatchFrom(pat, text, k + 1, pos + Len(pat[k].s))
                ELSE NoMatch
           [] pat[k].t = "ws" ->
                GreedyRun(pat, text, k, pos, RunLen(text, pos, WhiteSpace), FALSE)
           [] pat[k].t = "num" ->
                GreedyRun(pat, text, k, pos, RunLen(text, pos, NumClass), TRUE)
           [] pat[k].t = "lazy" -> LazyRun(pat, text, k, pos)

GreedyRun(pat, text, k, pos, n, capture) ==
    IF n < 1 THEN NoMatch
    ELSE LET r == MatchFrom(pat, text, k + 1, pos + n)
         IN  IF r.ok
             THEN (IF capture
                   THEN [r EXCEPT !.caps = <<SubSeq(text, pos, pos + n - 1)>> \o @]
                   ELSE r)
             ELSE GreedyRun(pat, text, k, pos, n - 1, capture)

\* [\s\S]*? skips as few characters as lets the rest match.  Every lazy item
\* of the pattern is followed by a literal, so the skips worth trying end where
\* that literal occurs.
LazyRun(pat, text, k, pos) ==
    LET occ == {p \in pos..Len(text) : HasAt(text, p, pat[k + 1].s)}
    IN  IF occ = {} THEN NoMatch
        ELSE LET p == CHOOSE x \in occ : \A y \in occ : x <= y
                 r == MatchFrom(pat, text, k + 1, p)
             IN  IF r.ok THEN r ELSE LazyRun(pat, text, k, p + 1)

\* pattern.exec(text) with the g flag: the first match starting at or after
\* lastIndex (a position, 1-based).
Exec(pat, text, lastIndex) ==
    LET starts == {s \in lastIndex..Len(text) : HasAt(text, s, pat[1].s)
                                                /\ MatchFrom(pat, text, 1, s).ok}
    IN  IF starts = {} THEN NoMatch
        ELSE MatchFrom(pat, text, 1, CHOOSE s \in starts : \A q \in starts : s <= q)

\* Number(token) for the tokens of the checked inputs: the empty string is 0,
\* an optionally signed run of decimal digits is its value, any other token
\* of the checked inputs (none holds a fraction or an exponent) is NaN.
RECURSIVE DigitsValue(_)
DigitsValue(ds) ==
    IF ds = <<>> THEN 0
    ELSE 10 * DigitsValue(SubSeq(ds, 1, Len(ds) - 1)) + DigitVal(ds[Len(ds)])

AllDigits(ds) == ds # <<>> /\ \A i \in 1..Len(ds) : IsDigit(ds[i])

Number(tok) ==
    IF tok = <<>> THEN JsNum(0)
    ELSE IF AllDigits(tok) THEN JsNum(DigitsValue(tok))
    ELSE IF tok[1] = "-" /\ AllDigits(Tail(tok)) THEN JsNum(0 - DigitsValue(Tail(tok)))
    ELSE IF tok[1] = "+" /\ AllDigits(Tail(tok)) THEN JsNum(DigitsValue(Tail(tok)))
    ELSE JsNaN

MapNumber(toks) == [i \in 1..Len(toks) |-> Number(toks[i])]

\* the while loop over pattern.exec: one triangle per match
RECURSIVE ExecLoop(_, _, _, _, _, _)
ExecLoop(pat, text, lastIndex, triangleCount, positions, normals) ==
    LET result == Exec(pat, text, lastIndex)
    IN  IF ~result.ok
        THEN [triangleCount |-> triangleCount, positions |-> positions,
              normals |-> normals]
        ELSE LET nrm == MapNumber(SubSeq(result.caps, 1, 3))
                 vertices == MapNumber(SubSeq(result.caps, 4, Len(result.caps)))
             IN  ExecLoop(pat, text, result.end, triangleCount + 1,
                          positions \o SubSeq(vertices, 1, 9),
                          normals \o nrm \o nrm \o nrm)

\* a mutant of parseASCII: positions, normals and triangleCount are not
\* created by the call but are what the call before left behind
parseASCIIShared(text) ==
    LET r == ExecLoop(pattern, text, 1, ret.triangleCount, ret.position, ret.normal)
    IN  [NoReturn EXCEPT !.status = "ok", !.decoder = "ascii",
                         !.triangleCount = r.triangleCount,
                         !.position = r.positions, !.normal = r.normals,
                         !.attributes = {"position", "normal"}]

parseASCII(text) ==
    LET r == ExecLoop(pattern, text, 1, 0, <<>>, <<>>)
    IN  [NoReturn EXCEPT !.status = "ok", !.decoder = "ascii",
                         !.triangleCount = r.triangleCount,
                         !.position = r.positions, !.normal = r.normals,
                         !.attributes = {"position", "normal"}]

----------------------------------------------------------------------------
(* parseSTL                                                                *)

\* a mutant of isASCII: the header is not searched for "binary"
isASCIISolidOnly(header) == StartsWith(header, solid)

isASCII(header) == StartsWith(header, solid) /\ ~Includes(header, binary)

parseSTL(buffer) ==
    LET header == Trim(TextDecode(Slice(buffer, JsNum(0), JsNum(HeaderBytes))))
    IN  IF isASCII(header)
        THEN [parseASCII(TextDecode(buffer)) EXCEPT !.format = "ascii"]
        ELSE LET b == parseBinary(buffer)
             IN  IF b.status = "ok" THEN [b EXCEPT !.format = "binary"] ELSE b

----------------------------------------------------------------------------
(* parsePlyAscii                                                           *)

\* String.prototype.split(c) for a one-character separator c
RECURSIVE SplitChar(_, _)
SplitChar(s, c) ==
    LET at == {i \in 1..Len(s) : s[i] = c}
    IN  IF at = {} THEN <<s>>
        ELSE LET i == CHOOSE x \in at : \A y \in at : x <= y
             IN  <<SubSeq(s, 1, i - 1)>> \o SplitChar(SubSeq(s, i + 1, Len(s)), c)

\* String.prototype.split(/\s+/)
RECURSIVE SplitWs(_)
SplitWs(s) ==
    LET at == {i \in 1..Len(s) : s[i] \in WhiteSpace}
    IN  IF at = {} THEN <<s>>
        ELSE LET i == CHOOSE x \in at : \A y \in at : x <= y
                 n == RunLen(s, i, WhiteSpace)
             IN  <<SubSeq(s, 1, i - 1)>> \o SplitWs(SubSeq(s, i + n, Len(s)))

\* array[k] for a 0-based k: the element, or undefined past the end
Defined(x) == [def |-> TRUE, s |-> x]
Undefined == [def |-> FALSE, s |-> <<>>]
At(array, k) == IF k < Len(array) THEN Defined(array[k + 1]) ELSE Undefined

\* parseInt(x, 10): white space is skipped, then an optional sign and the
\* longest run of digits are read; NaN when there is no digit (or x is
\* undefined).
ParseInt(x) ==
    IF ~x.def THEN JsNaN
    ELSE LET lead == RunLen(x.s, 1, WhiteSpace)
             t == SubSeq(x.s, lead + 1, Len(x.s))
             signed == t # <<>> /\ t[1] \in {"+", "-"}
             u == IF signed THEN Tail(t) ELSE t
             n == RunLen(u, 1, {Digits[d] : d \in 1..10})
         IN  IF n = 0 THEN JsNaN
             ELSE IF signed /\ t[1] = "-" THEN JsNum(0 - DigitsValue(SubSeq(u, 1, n)))
             ELSE JsNum(DigitsValue(SubSeq(u, 1, n)))

\* a + b on JavaScript numbers
JsAdd(a, b) == IF a.t = "num" /\ b.t = "num" THEN JsNum(a.v + b.v) ELSE JsNaN

\* x / 255: the number v/255 is written [t |-> "num/255", v |-> v]
Div255(x) == IF x.t = "num" THEN [t |-> "num/255", v |-> x.v] ELSE JsNaN

\* parts[k] of a row of numbers: the number, or undefined past the end
Part(parts, k) == IF k < Len(parts) THEN parts[k + 1] ELSE JsUndefined

\* The for loop over the header lines (i is 0-based).  It ends at the
\* end_header line, where it slices the rows, or at the end of the lines.
RECURSIVE HeaderLoop(_, _, _, _, _)
HeaderLoop(lines, i, vertexCount, faceCount, vertexProperties) ==
    IF i >= Len(lines)
    THEN [headerEnded |-> FALSE, vertexCount |-> vertexCount, faceCount |-> faceCount,
          vertexProperties |-> vertexProperties, vertexLines |-> <<>>, faceLines |-> <<>>]
    ELSE LET line == Trim(lines[i + 1])
         IN  IF StartsWith(line, elementVertex)
             THEN HeaderLoop(lines, i + 1, ParseInt(At(SplitChar(line, " "), 2)),
                             faceCount, vertexProperties)
             ELSE IF StartsWith(line, elementFace)
             THEN HeaderLoop(lines, i + 1, vertexCount,
                             ParseInt(At(SplitChar(line, " "), 2)), vertexProperties)
             ELSE IF StartsWith(line, property)
             THEN HeaderLoop(lines, i + 1, vertexCount, faceCount,
                             Append(vertexProperties, line))
             ELSE IF line = end_header
             THEN LET from == JsAdd(JsNum(i + 1), vertexCount)
                  IN  [headerEnded |-> TRUE, vertexCount |-> vertexCount,
                       faceCount |-> faceCount, vertexProperties |-> vertexProperties,
                       vertexLines |-> Slice(lines, JsNum(i + 1), from),
                       faceLines |-> Slice(lines, from, JsAdd(from, faceCount))]
             ELSE HeaderLoop(lines, i + 1, vertexCount, faceCount, vertexProperties)

RowNumbers(line) == MapNumber(SplitWs(Trim(line)))

\* the for loop over vertexLines
RECURSIVE VertexLoop(_, _, _, _)
VertexLoop(vertexLines, hasColors, positions, colors) ==
    IF vertexLines = <<>> THEN [positions |-> positions, colors |-> colors]
    ELSE LET parts == RowNumbers(Head(vertexLines))
             p == positions \o <<Part(parts, 0), Part(parts, 1), Part(parts, 2)>>
             c == IF hasColors /\ Len(parts) >= 6
                  THEN colors \o <<Div255(parts[4]), Div255(parts[5]), Div255(parts[6])>>
                  ELSE colors
         IN  VertexLoop(Tail(vertexLines), hasColors, p, c)

\* one pass of the for loop over faceLines: what the row appends to indices
FaceRow(line) ==
    LET parts == RowNumbers(line)
    IN  IF parts[1] = JsNum(3)
        THEN <<Part(parts, 1), Part(parts, 2), Part(parts, 3)>>
        ELSE <<>>

\* a mutant of FaceLoop: the loop ends at the first row that is no triangle
RECURSIVE FaceLoopStops(_, _)
FaceLoopStops(faceLines, indices) ==
    IF faceLines = <<>> THEN indices
    ELSE IF FaceRow(Head(faceLines)) = <<>> THEN indices
    ELSE FaceLoopStops(Tail(faceLines), indices \o FaceRow(Head(faceLines)))

RECURSIVE FaceLoop(_, _)
FaceLoop(faceLines, indices) ==
    IF faceLines = <<>> THEN indices
    ELSE FaceLoop(Tail(faceLines), indices \o FaceRow(Head(faceLines)))

parsePlyAscii(plyText) ==
    LET lines == SplitChar(plyText, "\n")
        h == HeaderLoop(lines, 0, JsNum(0), JsNum(0), <<>>)
        hasColors == \E k \in 1..Len(h.vertexProperties) :
                        Includes(h.vertexProperties[k], red)
        v == VertexLoop(h.vertexLines, hasColors, <<>>, <<>>)
        indices == FaceLoop(h.faceLines, <<>>)
    IN  [NoReturn EXCEPT !.status = "ok", !.decoder = "ply",
                         !.position = v.positions,
                         !.color = IF hasColors THEN v.colors ELSE <<>>,
                         !.index = indices, !.hasIndex = TRUE,
                         !.attributes = {"position", "normal"}
                                        \cup (IF hasColors THEN {"color"} ELSE {}),
                         !.hasColors = hasColors,
                         !.vCount = h.vertexCount, !.fCount = h.faceCount]

----------------------------------------------------------------------------
(* The checked inputs.                                                     *)

Sp == <<" ">>
Nl == <<"\n">>
D(n) == <<Digits[n + 1]>>

RECURSIVE Repeat(_, _)
Repeat(s, n) == IF n <= 0 THEN <<>> ELSE s \o Repeat(s, n - 1)

RECURSIVE Flatten(_)
Flatten(ss) == IF ss = <<>> THEN <<>> ELSE Head(ss) \o Flatten(Tail(ss))

\* all sequences over set S of length 0..n
SeqsUpTo(S, n) == UNION {[1..k -> S] : k \in 0..n}

outerLoop == <<"o", "u", "t", "e", "r", " ", "l", "o", "o", "p", "\n">>
endloop == <<"e", "n", "d", "l", "o", "o", "p", "\n">>
endfacet == <<"e", "n", "d", "f", "a", "c", "e", "t", "\n">>
endsolid == <<"e", "n", "d", "s", "o", "l", "i", "d", "\n">>

\* Facet block b of a text carries the normal (b 0 1) and the vertices
\* (b 1 0), (b 2 0), (b 3 0), so a decoded number tells its block.
FacetLine(b) == facet \o Sp \o normal \o Sp \o D(b) \o Sp \o D(0) \o Sp \o D(1) \o Nl
VertexLine(b, j) == vertex \o Sp \o D(b) \o Sp \o D(j) \o Sp \o D(0) \o Nl

BlockKinds == {"full", "spaced", "two", "noend", "badnormal"}

\* the kinds that are complete, well-formed facet blocks
CompleteKinds == {"full", "spaced"}

Block(kind, b) ==
    CASE kind = "full" ->
           FacetLine(b) \o outerLoop \o VertexLine(b, 1) \o VertexLine(b, 2)
           \o VertexLine(b, 3) \o endloop \o endfacet
      [] kind = "spaced" ->
           <<" ", "\t">> \o facet \o <<"\n", " ">> \o normal \o <<"\t", "\t">>
           \o D(b) \o <<" ", " ">> \o D(0) \o <<"\r", "\n">> \o D(1) \o Nl
           \o outerLoop \o <<" ">> \o VertexLine(b, 1) \o <<"\t">> \o VertexLine(b, 2)
           \o vertex \o <<" ", " ">> \o D(b) \o <<"\n">> \o D(3) \o <<"\t">> \o D(0)
           \o Nl \o endloop \o endfacet
      [] kind = "two" ->
           FacetLine(b) \o outerLoop \o VertexLine(b, 1) \o VertexLine(b, 2)
           \o endloop \o endfacet
      [] kind = "noend" ->
           FacetLine(b) \o outerLoop \o VertexLine(b, 1) \o VertexLine(b, 2)
           \o VertexLine(b, 3)
      [] kind = "badnormal" ->
           facet \o Sp \o normal \o Sp \o <<"x">> \o Sp \o D(0) \o Sp \o D(1) \o Nl
           \o outerLoop \o VertexLine(b, 1) \o VertexLine(b, 2)
           \o VertexLine(b, 3) \o endloop \o endfacet

AsciiText(kinds) ==
    solid \o <<" ", "m", "\n">>
    \o Flatten([b \in 1..Len(kinds) |-> Block(kinds[b], b)])
    \o endsolid

AsciiShapes == {[fam |-> "ascii", kinds |-> ks] : ks \in SeqsUpTo(BlockKinds, MaxBlocks)}

\* Header texts of a binary buffer; the rest of the 80 bytes is zero.
HeaderKinds == {"plain", "solid", "solidbinary", "padsolid", "asolid"}

HeaderText(kind) ==
    CASE kind = "plain" -> <<"m", "e", "s", "h">>
      [] kind = "solid" -> solid \o <<" ", "c", "u", "b", "e">>
      [] kind = "solidbinary" -> solid \o Sp \o binary
      [] kind = "padsolid" -> <<" ", "\t">> \o solid \o <<" ", "x">>
      [] kind = "asolid" -> <<"a">> \o solid

\* little-endian bytes of a triangle count below 2^16
CountBytes(n) == <<n % 256, n \div 256, 0, 0>>

\* the bytes of a binary STL buffer: header, declared count, then payload
\* bytes that differ from field to field, cut or padded to len bytes
BinaryBytes(hdr, declared, len, seed) ==
    LET h == Encode(HeaderText(hdr))
    IN  [i \in 1..len |->
            IF i <= Len(h) THEN h[i]
            ELSE IF i <= HeaderBytes THEN 0
            ELSE IF i <= CountEnd THEN CountBytes(declared)[i - HeaderBytes]
            ELSE (seed + 7 * i) % 128]

\* a declared count beyond the bounds: the spec's "declares 10, carries 2"
ManyDeclared == 10

BinaryLens ==
    {0, 79, 80, 83}
    \cup {CountEnd + 50 * k + d : k \in 0..MaxFaces, d \in {0 - 3, 0 - 2, 0 - 1, 0, 7}}

BinaryShapes ==
    {[fam |-> "bin", hdr |-> h, declared |-> n, len |-> l, seed |-> sd] :
        h \in HeaderKinds, n \in (0..MaxFaces) \cup {ManyDeclared},
        l \in BinaryLens, sd \in {0, 3}}

\* Texts whose 80-byte header holds, or just misses, the word "binary":
\* "solid", filler, and "binary" starting at 0-based offset at.
StraddleText(at) ==
    solid \o Sp \o Repeat(<<"x">>, at - 6) \o binary \o Nl
    \o Block("full", 1) \o endsolid

StraddleShapes == {[fam |-> "straddle", at |-> a] : a \in {70, 74, 75, 77, 80}}

ArrayBufferOf(bytes) == [type |-> "ArrayBuffer", bytes |-> bytes, chars |-> <<>>]
StringOf(chars) == [type |-> "string", bytes |-> <<>>, chars |-> chars]

\* the ArrayBuffer a shape stands for
BufferOf(sh) ==
    CASE sh.fam = "bin" -> BinaryBytes(sh.hdr, sh.declared, sh.len, sh.seed)
      [] sh.fam = "ascii" -> Encode(AsciiText(sh.kinds))
      [] sh.fam = "straddle" -> Encode(StraddleText(sh.at))

StlShapes == BinaryShapes \cup AsciiShapes \cup StraddleShapes

\* PLY texts.  A header line "element vertex <n>" or "element face <n>" is
\* absent, lacks its count, or declares n.
Decls(max) ==
    {[k |-> "absent", n |-> 0], [k |-> "nocount", n |-> 0]}
    \cup {[k |-> "count", n |-> i] : i \in 0..max}

DeclLine(word, d) ==
    CASE d.k = "absent" -> <<>>
      [] d.k = "nocount" -> <<word>>
      [] d.k = "count" -> <<word \o Sp \o D(d.n)>>

plyMagic == <<"p", "l", "y">>
formatLine == <<"f", "o", "r", "m", "a", "t", " ", "a", "s", "c", "i", "i", " ", "1", ".", "0">>
propertyX == <<"p", "r", "o", "p", "e", "r", "t", "y", " ", "f", "l", "o", "a", "t", " ", "x">>
propertyRed == <<"p", "r", "o", "p", "e", "r", "t", "y", " ", "u", "c", "h", "a", "r", " ", "r", "e", "d">>
propertyList == <<"p", "r", "o", "p", "e", "r", "t", "y", " ", "l", "i", "s", "t", " ", "u", "c", "h", "a", "r", " ", "i", "n", "t", " ", "v", "e", "r", "t", "e", "x", "_", "i", "n", "d", "i", "c", "e", "s">>

\* vertex row j is "j 0 1", with the colour "255 0 51" after it when the
\* header declares red; face rows by kind, r being the row's number
VertexRow(j, withRed) ==
    D(j) \o Sp \o D(0) \o Sp \o D(1)
    \o (IF withRed THEN <<" ", "2", "5", "5", " ", "0", " ", "5", "1">> ELSE <<>>)

FaceKinds == {"tri", "quad", "short"}

FaceRowText(kind, r) ==
    CASE kind = "tri" -> D(3) \o Sp \o D(0) \o Sp \o D(1) \o Sp \o D(r)
      [] kind = "quad" -> D(4) \o Sp \o D(0) \o Sp \o D(1) \o Sp \o D(2) \o Sp \o D(3)
      [] kind = "short" -> D(3) \o Sp \o D(r) \o Sp \o D(1)

RECURSIVE JoinLines(_)
JoinLines(ls) ==
    IF ls = <<>> THEN <<>>
    ELSE IF Len(ls) = 1 THEN ls[1]
    ELSE ls[1] \o Nl \o JoinLines(Tail(ls))

PlyLines(sh) ==
    LET vpart == DeclLine(elementVertex, sh.vdecl) \o <<propertyX>>
                 \o (IF sh.red THEN <<propertyRed>> ELSE <<>>)
        fpart == DeclLine(elementFace, sh.fdecl) \o <<propertyList>>
    IN  <<plyMagic, formatLine>>
        \o (IF sh.vfirst THEN vpart \o fpart ELSE fpart \o vpart)
        \o (IF sh.endHeader THEN <<end_header>> ELSE <<>>)
        \o [j \in 1..sh.nrows |-> VertexRow(j, sh.red)]
        \o [r \in 1..Len(sh.faces) |-> FaceRowText(sh.faces[r], r)]
        \o (IF sh.trail THEN <<<<>>>> ELSE <<>>)

PlyText(sh) == JoinLines(PlyLines(sh))

\* headers of every kind over one fixed body
PlyHeaderShapes ==
    {[fam |-> "ply", vdecl |-> v, fdecl |-> f, vfirst |-> o, endHeader |-> e,
      red |-> FALSE, nrows |-> MaxVerts, faces |-> <<"tri", "quad">>, trail |-> TRUE] :
        v \in Decls(MaxVerts), f \in Decls(MaxFaceRows), o \in BOOLEAN, e \in BOOLEAN}

\* well-formed headers over bodies of every kind
PlyBodyShapes ==
    {[fam |-> "ply", vdecl |-> [k |-> "count", n |-> n], fdecl |-> [k |-> "count", n |-> m],
      vfirst |-> TRUE, endHeader |-> TRUE, red |-> c, nrows |-> nr, faces |-> fs,
      trail |-> t] :
        n \in 0..MaxVerts, m \in 0..MaxFaceRows, c \in BOOLEAN, nr \in 0..MaxVerts,
        fs \in SeqsUpTo(FaceKinds, MaxFaceRows), t \in BOOLEAN}

PlyShapes == PlyHeaderShapes \cup PlyBodyShapes

\* PLY texts that place the line "property uchar red" nowhere, before every
\* element, under element vertex or under element face, over vertex rows
\* with and without colour fields: row j is "j 0 1" or "j 0 1 255 0 51".
\* There are as many rows as declared and no face rows.
RedPlaces == {"none", "before", "vertex", "face"}
RowKinds == {"xyz", "xyzrgb"}

PlyColorLines(sh) ==
    LET redIf(place) == IF sh.redAt = place THEN <<propertyRed>> ELSE <<>>
    IN  <<plyMagic, formatLine>>
        \o redIf("before")
        \o <<elementVertex \o Sp \o D(Len(sh.rows)), propertyX>> \o redIf("vertex")
        \o <<elementFace \o Sp \o D(0), propertyList>> \o redIf("face")
        \o <<end_header>>
        \o [j \in 1..Len(sh.rows) |-> VertexRow(j, sh.rows[j] = "xyzrgb")]

PlyColorShapes ==
    {[fam |-> "plycolor", redAt |-> a, rows |-> rs] :
        a \in RedPlaces, rs \in SeqsUpTo(RowKinds, MaxVerts)}

----------------------------------------------------------------------------
(* The calls.                                                              *)

\* The inputs of runs of several calls: the buffers of ASCII texts of one and
\* of two facet blocks, a binary buffer of one triangle, and a PLY text.
CallInputs ==
    {[shape |-> sh, arg |-> ArrayBufferOf(BufferOf(sh))] :
        sh \in {[fam |-> "ascii", kinds |-> <<"full">>],
                [fam |-> "ascii", kinds |-> <<"spaced", "full">>],
                [fam |-> "bin", hdr |-> "plain", declared |-> 1, len |-> 134, seed |-> 3]}}
    \cup {[shape |-> sh, arg |-> StringOf(JoinLines(PlyColorLines(sh)))] :
        sh \in {[fam |-> "plycolor", redAt |-> "vertex", rows |-> <<"xyzrgb">>]}}

Init ==
    /\ called = "none"
    /\ ret = NoReturn
    /\ log = <<>>
    /\ Constructed("stl")
    /\ \/ \E sh \in StlShapes :
            /\ shape = sh
            /\ arg = ArrayBufferOf(BufferOf(sh))
       \/ \E sh \in AsciiShapes :
            /\ shape = sh
            /\ arg = StringOf(AsciiText(sh.kinds))
       \/ \E sh \in PlyShapes :
            /\ shape = sh
            /\ arg = StringOf(PlyText(sh))
       \/ \E sh \in PlyColorShapes :
            /\ shape = sh
            /\ arg = StringOf(JoinLines(PlyColorLines(sh)))

\* parseSTL(buffer)
parseSTLCall ==
    /\ called = "none"
    /\ arg.type = "ArrayBuffer"
    /\ called' = "parseSTL"
    /\ ret' = parseSTL(arg.bytes)
    /\ log' = Append(log, [fn |-> "parseSTL", input |-> arg, out |-> ret'])
    /\ UNCHANGED <<arg, shape, viewerVars>>

\* parseBinary(buffer)
parseBinaryCall ==
    /\ called = "none"
    /\ arg.type = "ArrayBuffer"
    /\ called' = "parseBinary"
    /\ ret' = parseBinary(arg.bytes)
    /\ log' = Append(log, [fn |-> "parseBinary", input |-> arg, out |-> ret'])
    /\ UNCHANGED <<arg, shape, viewerVars>>

\* parseASCII(text)
parseASCIICall ==
    /\ called = "none"
    /\ arg.type = "string"
    /\ called' = "parseASCII"
    /\ ret' = parseASCII(arg.chars)
    /\ log' = Append(log, [fn |-> "parseASCII", input |-> arg, out |-> ret'])
    /\ UNCHANGED <<arg, shape, viewerVars>>

\* parsePlyAscii(plyText)
parsePlyAsciiCall ==
    /\ called = "none"
    /\ arg.type = "string"
    /\ called' = "parsePlyAscii"
    /\ ret' = parsePlyAscii(arg.chars)
    /\ log' = Append(log, [fn |-> "parsePlyAscii", input |-> arg, out |-> ret'])
    /\ UNCHANGED <<arg, shape, viewerVars>>

Next == parseSTLCall \/ parseBinaryCall \/ parseASCIICall \/ parsePlyAsciiCall

Spec == Init /\ [][Next]_vars

\* Runs of several calls: after a call has returned, the caller reads the
\* next file and calls again; what the call before returned is still there.
InitCalls ==
    /\ called = "none"
    /\ ret = NoReturn
    /\ log = <<>>
    /\ Constructed("stl")
    /\ \E in \in CallInputs : shape = in.shape /\ arg = in.arg

NextFile ==
    /\ called # "none"
    /\ Len(log) < MaxCalls
    /\ \E in \in CallInputs : shape' = in.shape /\ arg' = in.arg
    /\ called' = "none"
    /\ UNCHANGED <<ret, log, viewerVars>>

NextCalls ==
    parseSTLCall \/ parseBinaryCall \/ parseASCIICall \/ parsePlyAsciiCall \/ NextFile

SpecCalls == InitCalls /\ [][NextCalls]_vars

----------------------------------------------------------------------------
(* The viewer components.                                                  *)

Viewers == {"stl", "ply", "obj"}

MaxPicks == 2       \* handlePickFile calls
MaxLoads == 2       \* onContextCreate calls that pass the guard
MaxFrames == 2      \* animation frame callbacks
MaxMaterials == 2   \* materials of an MTL file
MaxAngle == 60      \* rotation.y up to which drags are followed

\* camera.position.set(0, 0, 60); the zoom ranges 10..500, 0.5..200 and
\* 1..500 of the three pinch handlers; rotation.y += 0.01 of animate and
\* rotation.y += dx * 0.0015 of a drag
CameraStartZ == 1200
StlZoomMin == 200
StlZoomMax == 10000
PlyZoomMin == 10
PlyZoomMax == 4000
ObjZoomMin == 20
ObjZoomMax == 10000
RotationStep == 20
DragFactor == 3

ZoomMin ==
    CASE viewer = "stl" -> StlZoomMin [] viewer = "ply" -> PlyZoomMin
      [] viewer = "obj" -> ObjZoomMin
ZoomMax ==
    CASE viewer = "stl" -> StlZoomMax [] viewer = "ply" -> PlyZoomMax
      [] viewer = "obj" -> ObjZoomMax

\* what the environment hands to the handlers: finger distances and drags
\* in pixels (a short pinch that moves the camera inside a zoom range and a
\* wide one that reaches either end of it), the largest dimension of a
\* decoded OBJ, the message of a thrown error, the materials of an MTL file
PinchDistances == {0, 600, 5000}
WidePinches == {0, 5000}
DragPixels == {0, 10}
ObjectSizes == {50}
ErrorMessages == {"", "Network request failed"}
MaterialKinds == {"map", "color"}

Ok == [ok |-> TRUE, message |-> ""]
Outcomes == {Ok} \cup {[ok |-> FALSE, message |-> m] : m \in ErrorMessages}

\* an unclamped mutant of the pinch
NoClamp(z) == z

\* Math.min(Math.max(z, min), max)
Clamp(z) ==
    LET low == IF z > ZoomMin THEN z ELSE ZoomMin
    IN  IF low < ZoomMax THEN low ELSE ZoomMax

\* fitCameraToObject: cameraZ = |maxDim / (2 tan(fov / 2))| * 1.5 with fov
\* 75 degrees is 0.9774 * maxDim, in units of 0.05
FitDistance(maxDim) == (maxDim * 19548) \div 1000

FirstStep ==
    CASE viewer = "stl" -> "fetch" [] viewer = "ply" -> "readPly"
      [] viewer = "obj" -> "readObj"

LoadErrorTitle ==
    CASE viewer = "stl" -> "STL Load Error" [] viewer = "ply" -> "PLY Load Error"
      [] viewer = "obj" -> "OBJ Load Error"

\* The locals of an onContextCreate call that passed its guard: where it
\* waits (pc), the fileUri and autoRotate of the render it closes over, the
\* z of the camera it created, the materials its loop has still to visit;
\* and, as history, the texture failures it met (texFailed), the step whose
\* error its catch block caught (err) and the size of the object it built.
NewLoad ==
    [pc |-> FirstStep, fileUri |-> fileUri, autoRotate |-> autoRotate,
     cameraZ |-> CameraStartZ, mats |-> <<>>, texFailed |-> 0, err |-> "none",
     maxDim |-> 0]

Awaits(l, step) == l <= Len(loads) /\ loads[l].pc = step

\* handlePickFile up to its await; the button is rendered while no file is
\* selected and is disabled while loading, and it cannot be pressed while
\* the document picker, a modal dialog, is open
handlePickFile ==
    /\ fileUri = NoFile
    /\ ~loading
    /\ picking = 0
    /\ taps < MaxPicks
    /\ taps' = taps + 1
    /\ picking' = picking + 1
    /\ UNCHANGED <<decoderVars, viewer, fileUri, loading, autoRotate, hasLoadedRef,
                   meshRef, cameraRef, lastPinch, rotationY, frames, loads, alerts, picks>>

\* what getDocumentAsync resolves to or throws: a result with assets, a
\* result of the old shape with a uri, a cancelled pick, an error
PickerResults == {"assets", "uri", "canceled"} \cup {"throw"}

Selects(result) == result = "assets" \/ (viewer = "ply" /\ result = "uri")

\* hasLoadedRef.current = false, inside the branch of a selected file
RefAfterPick(result) == IF Selects(result) THEN FALSE ELSE hasLoadedRef

\* handlePickFile from its await on
getDocumentAsyncSettles(result, message) ==
    /\ picking > 0
    /\ picking' = picking - 1
    /\ fileUri' = IF Selects(result) THEN picks + 1 ELSE fileUri
    /\ picks' = IF Selects(result) THEN picks + 1 ELSE picks
    /\ hasLoadedRef' = RefAfterPick(result)
    /\ alerts' = IF result = "throw"
                 THEN Append(alerts, [title |-> "File Picker Error",
                                      message |-> IF message = ""
                                                  THEN "Something went wrong"
                                                  ELSE message,
                                      load |-> 0])
                 ELSE alerts
    /\ UNCHANGED <<decoderVars, viewer, loading, autoRotate, meshRef, cameraRef,
                   lastPinch, rotationY, frames, loads, taps>>

\* a mutant of the guard of onContextCreate: hasLoadedRef is not looked at
GuardWithoutRef == fileUri # NoFile

\* if (hasLoadedRef.current || !fileUri) return
Guard == ~(hasLoadedRef \/ fileUri = NoFile)

\* onContextCreate up to its first await
onContextCreate ==
    /\ Guard
    /\ Len(loads) < MaxLoads
    /\ hasLoadedRef' = TRUE
    /\ cameraRef' = Len(loads) + 1
    /\ loading' = TRUE
    /\ loads' = Append(loads, NewLoad)
    /\ UNCHANGED <<decoderVars, viewer, fileUri, autoRotate, meshRef, lastPinch,
                   rotationY, frames, alerts, taps, picking, picks>>

\* What a step of a load leaves: its locals, loading, the alerts, the mesh.
Effect(rec) ==
    [load |-> rec, loading |-> loading, alerts |-> alerts, meshRef |-> meshRef,
     rotationY |-> rotationY]

Apply(l, e) ==
    /\ loads' = [loads EXCEPT ![l] = e.load]
    /\ loading' = e.loading
    /\ alerts' = e.alerts
    /\ meshRef' = e.meshRef
    /\ rotationY' = e.rotationY
    /\ UNCHANGED <<decoderVars, viewer, fileUri, autoRotate, hasLoadedRef, cameraRef,
                   lastPinch, frames, taps, picking, picks>>

\* a mutant of catch: the alert is raised, loading stays as it is
catchKeepsLoading(l, rec, step, error) ==
    [Effect([rec EXCEPT !.pc = "failed", !.err = step]) EXCEPT
        !.alerts = Append(alerts, [title |-> LoadErrorTitle,
                                   message |-> IF error.message = ""
                                               THEN "Could not load file"
                                               ELSE error.message,
                                   load |-> l])]

\* the catch block of onContextCreate
catch(l, rec, step, error) ==
    [Effect([rec EXCEPT !.pc = "failed", !.err = step]) EXCEPT
        !.alerts = Append(alerts, [title |-> LoadErrorTitle,
                                   message |-> IF error.message = ""
                                               THEN "Could not load file"
                                               ELSE error.message,
                                   load |-> l]),
        !.loading = FALSE]

\* from the decoded mesh to the end of the try block: meshRef.current is
\* the new mesh (rotation 0), the OBJ viewer fits its camera, loading is
\* false, and animate runs for the first time
install(l, rec, maxDim) ==
    [Effect([rec EXCEPT !.pc = "animating", !.maxDim = maxDim,
                        !.cameraZ = IF viewer = "obj" THEN FitDistance(maxDim) ELSE @])
     EXCEPT !.meshRef = l, !.loading = FALSE,
            !.rotationY = IF rec.autoRotate THEN RotationStep ELSE 0]

\* the decoder call and what follows it
decode(l, rec, step, parsed, maxDim) ==
    IF parsed.ok THEN install(l, rec, maxDim) ELSE catch(l, rec, step, parsed)

\* the for loop over the materials, from the material rec.mats starts with
\* to its next await, or through objLoader.parse to the end of the try
RECURSIVE materialLoop(_, _, _, _)
materialLoop(l, rec, parsed, maxDim) ==
    IF rec.mats = <<>> THEN decode(l, rec, "objLoader.parse", parsed, maxDim)
    ELSE IF Head(rec.mats) = "map" THEN Effect([rec EXCEPT !.pc = "downloadAsync"])
    ELSE materialLoop(l, [rec EXCEPT !.mats = Tail(@)], parsed, maxDim)

\* a mutant of textureCatch: the error of a texture reaches the outer catch
textureCatchRethrows(l, rec, error, parsed, maxDim) ==
    catch(l, rec, "texture", error)

\* the catch block around one material's texture: console.warn, and the
\* loop goes on with the next material
textureCatch(l, rec, error, parsed, maxDim) ==
    materialLoop(l, [rec EXCEPT !.mats = Tail(@)], parsed, maxDim)

\* STL: await fetch(fileUri)
fetchSettles(l, out) ==
    /\ Awaits(l, "fetch")
    /\ Apply(l, IF out.ok THEN Effect([loads[l] EXCEPT !.pc = "arrayBuffer"])
                ELSE catch(l, loads[l], "fetch", out))

\* STL: await response.arrayBuffer(), parseSTL(buffer) and the rest of the try
arrayBufferSettles(l, out, parsed) ==
    /\ Awaits(l, "arrayBuffer")
    /\ Apply(l, IF out.ok THEN decode(l, loads[l], "parseSTL", parsed, 0)
                ELSE catch(l, loads[l], "arrayBuffer", out))

\* PLY: await readAsStringAsync(fileUri), parsePlyAscii(plyText) and the
\* rest of the try
readPlySettles(l, out, parsed) ==
    /\ Awaits(l, "readPly")
    /\ Apply(l, IF out.ok THEN decode(l, loads[l], "parsePlyAscii", parsed, 0)
                ELSE catch(l, loads[l], "readPly", out))

\* OBJ: await readAsStringAsync(fileUri)
readObjSettles(l, out) ==
    /\ Awaits(l, "readObj")
    /\ Apply(l, IF out.ok THEN Effect([loads[l] EXCEPT !.pc = "getInfoAsync"])
                ELSE catch(l, loads[l], "readObj", out))

\* OBJ: await getInfoAsync(mtlUri); without an MTL file objLoader.parse and
\* the rest of the try follow
getInfoSettles(l, out, exists, parsed, maxDim) ==
    /\ Awaits(l, "getInfoAsync")
    /\ Apply(l, IF ~out.ok THEN catch(l, loads[l], "getInfoAsync", out)
                ELSE IF exists THEN Effect([loads[l] EXCEPT !.pc = "readMtl"])
                ELSE decode(l, loads[l], "objLoader.parse", parsed, maxDim))

\* OBJ: await readAsStringAsync(mtlUri), mtlLoader.parse, and the loop over
\* the materials to its first await
readMtlSettles(l, out, mtlParsed, mats, parsed, maxDim) ==
    /\ Awaits(l, "readMtl")
    /\ Apply(l, IF ~out.ok THEN catch(l, loads[l], "readMtl", out)
                ELSE IF ~mtlParsed.ok THEN catch(l, loads[l], "mtlLoader.parse", mtlParsed)
                ELSE materialLoop(l, [loads[l] EXCEPT !.mats = mats], parsed, maxDim))

\* OBJ: await asset.downloadAsync() of the texture of the material the
\* loop is at
downloadSettles(l, out, parsed, maxDim) ==
    /\ Awaits(l, "downloadAsync")
    /\ Apply(l, IF out.ok THEN Effect([loads[l] EXCEPT !.pc = "TextureLoader.load"])
                ELSE textureCatch(l, [loads[l] EXCEPT !.texFailed = @ + 1], out,
                                  parsed, maxDim))

\* OBJ: await new Promise(resolve => new TextureLoader().load(...)): onLoad
\* resolves, onError resolves, and a throw of load rejects into the catch
\* block of the material
TextureReports == {"onLoad", "onError", "throw"}

textureLoadSettles(l, report, parsed, maxDim) ==
    /\ Awaits(l, "TextureLoader.load")
    /\ Apply(l, CASE report = "onLoad" ->
                       materialLoop(l, [loads[l] EXCEPT !.mats = Tail(@)], parsed, maxDim)
                  [] report = "onError" ->
                       materialLoop(l, [loads[l] EXCEPT !.mats = Tail(@),
                                                        !.texFailed = @ + 1],
                                    parsed, maxDim)
                  [] report = "throw" ->
                       textureCatch(l, [loads[l] EXCEPT !.texFailed = @ + 1],
                                    [ok |-> FALSE, message |-> ""], parsed, maxDim))

\* a callback of requestAnimationFrame(animate) of load l; autoRotate is the
\* one of the render that onContextCreate closed over
animate(l) ==
    /\ Awaits(l, "animating")
    /\ frames < MaxFrames
    /\ frames' = frames + 1
    /\ rotationY' = IF loads[l].autoRotate /\ meshRef # 0
                    THEN rotationY + RotationStep ELSE rotationY
    /\ UNCHANGED <<decoderVars, viewer, fileUri, loading, autoRotate, hasLoadedRef,
                   meshRef, cameraRef, lastPinch, loads, alerts, taps, picking, picks>>

\* the two-finger branch of onPanResponderMove: what it leaves in the camera
pinch(dist) ==
    IF lastPinch # NoPinch
    THEN [loads EXCEPT ![cameraRef].cameraZ = Clamp(@ - (dist - lastPinch))]
    ELSE loads

\* onPanResponderMove; the view with the pan handlers is rendered while a
\* file is selected
onPanResponderMove(touches, dx, dist) ==
    /\ fileUri # NoFile
    /\ meshRef # 0 /\ cameraRef # 0
    /\ CASE touches = 1 ->
              /\ rotationY + DragFactor * dx <= MaxAngle
              /\ rotationY' = rotationY + DragFactor * dx
              /\ UNCHANGED <<loads, lastPinch>>
         [] touches = 2 ->
              /\ loads' = pinch(dist)
              /\ lastPinch' = dist
              /\ UNCHANGED rotationY
         [] OTHER -> UNCHANGED <<rotationY, loads, lastPinch>>
    /\ UNCHANGED <<decoderVars, viewer, fileUri, loading, autoRotate, hasLoadedRef,
                   meshRef, cameraRef, frames, alerts, taps, picking, picks>>

onPanResponderRelease ==
    /\ fileUri # NoFile
    /\ lastPinch' = NoPinch
    /\ UNCHANGED <<decoderVars, viewer, fileUri, loading, autoRotate, hasLoadedRef,
                   meshRef, cameraRef, rotationY, frames, loads, alerts, taps, picking,
                   picks>>

\* the refresh-ccw button: camera.position.set(0, 0, 60) in the STL and PLY
\* viewers, fitCameraToObject in the OBJ viewer
resetCamera ==
    /\ fileUri # NoFile
    /\ loads' = IF viewer = "obj"
                THEN IF cameraRef # 0 /\ meshRef # 0
                     THEN [loads EXCEPT ![cameraRef].cameraZ =
                                            FitDistance(loads[meshRef].maxDim)]
                     ELSE loads
                ELSE IF cameraRef # 0
                     THEN [loads EXCEPT ![cameraRef].cameraZ = CameraStartZ]
                     ELSE loads
    /\ UNCHANGED <<decoderVars, viewer, fileUri, loading, autoRotate, hasLoadedRef,
                   meshRef, cameraRef, lastPinch, rotationY, frames, alerts, taps,
                   picking, picks>>

\* the play / pause button: setAutoRotate(!autoRotate)
toggleAutoRotate ==
    /\ fileUri # NoFile
    /\ autoRotate' = ~autoRotate
    /\ UNCHANGED <<decoderVars, viewer, fileUri, loading, hasLoadedRef, meshRef,
                   cameraRef, lastPinch, rotationY, frames, loads, alerts, taps, picking,
                   picks>>

\* the folder-open button of the icon bar, disabled while loading; only the
\* OBJ viewer clears hasLoadedRef here
resetFile ==
    /\ fileUri # NoFile
    /\ ~loading
    /\ fileUri' = NoFile
    /\ hasLoadedRef' = IF viewer = "obj" THEN FALSE ELSE hasLoadedRef
    /\ UNCHANGED <<decoderVars, viewer, loading, autoRotate, meshRef, cameraRef,
                   lastPinch, rotationY, frames, loads, alerts, taps, picking, picks>>

\* What the environment may answer: every outcome of every step, and the
\* small choice the gesture and animation runs are checked with (every step
\* succeeds or fails with an error without message, an MTL file has no
\* material or one with a texture).
EveryAnswer ==
    [outs |-> Outcomes, messages |-> ErrorMessages, sizes |-> ObjectSizes,
     mats |-> SeqsUpTo(MaterialKinds, MaxMaterials)]
FewAnswers ==
    [outs |-> {Ok, [ok |-> FALSE, message |-> ""]}, messages |-> {""},
     sizes |-> ObjectSizes, mats |-> {<<>>, <<"map">>}]

\* the steps of load l that end an await
LoadStep(l, env) ==
    \/ \E out \in env.outs : fetchSettles(l, out)
    \/ \E out, parsed \in env.outs : arrayBufferSettles(l, out, parsed)
    \/ \E out, parsed \in env.outs : readPlySettles(l, out, parsed)
    \/ \E out \in env.outs : readObjSettles(l, out)
    \/ \E out, parsed \in env.outs, exists \in BOOLEAN, maxDim \in env.sizes :
            getInfoSettles(l, out, exists, parsed, maxDim)
    \/ \E out, mtlParsed, parsed \in env.outs, maxDim \in env.sizes, mats \in env.mats :
            readMtlSettles(l, out, mtlParsed, mats, parsed, maxDim)
    \/ \E out, parsed \in env.outs, maxDim \in env.sizes :
            downloadSettles(l, out, parsed, maxDim)
    \/ \E report \in TextureReports, parsed \in env.outs, maxDim \in env.sizes :
            textureLoadSettles(l, report, parsed, maxDim)

\* one visit of the screen: the file picker, the GL view and the loads
VisitActions(env) ==
    \/ handlePickFile
    \/ \E result \in PickerResults, message \in env.messages :
            getDocumentAsyncSettles(result, message)
    \/ onContextCreate
    \/ \E l \in 1..MaxLoads : LoadStep(l, env)

\* the visits, each ended by the reset button
LoadActions(env) ==
    \/ VisitActions(env)
    \/ resetFile

InitViewer ==
    /\ arg = StringOf(<<>>)
    /\ shape = [fam |-> "none"]
    /\ called = "none"
    /\ ret = NoReturn
    /\ log = <<>>
    /\ \E k \in Viewers : Constructed(k)

NextViewer ==
    \/ LoadActions(FewAnswers)
    \/ \E l \in 1..MaxLoads : animate(l)
    \/ \E touches \in 1..3, dx \in DragPixels, dist \in WidePinches :
            onPanResponderMove(touches, dx, dist)
    \/ onPanResponderRelease
    \/ resetCamera
    \/ toggleAutoRotate

SpecViewer == InitViewer /\ [][NextViewer]_vars

\* One visit and its gestures, without the animation loop.
NextZoom ==
    \/ VisitActions(FewAnswers)
    \/ \E touches \in 1..3, dx \in DragPixels, dist \in PinchDistances :
            onPanResponderMove(touches, dx, dist)
    \/ onPanResponderRelease
    \/ resetCamera

SpecZoom == InitViewer /\ [][NextZoom]_vars

\* The picks, the resets and the loads alone, with every answer.
NextPicks == LoadActions(EveryAnswer)

SpecPicks == InitViewer /\ [][NextPicks]_vars

\* One screen visit without a reset, with what the JavaScript host
\* guarantees: a promise that is awaited settles, and the continuation of a
\* settled await runs.
NextLoads == VisitActions(EveryAnswer)

SpecLoads ==
    /\ InitViewer
    /\ [][NextLoads]_vars
    /\ \A l \in 1..MaxLoads : WF_vars(LoadStep(l, EveryAnswer))

----------------------------------------------------------------------------
(* The claims.                                                             *)

\* the float32 at 0-based offset off of the payload of a "bin" shape, from
\* how the payload bytes were laid out
PayloadFloat(seed, off) ==
    <<(seed + 7 * (off + 1)) % 128, (seed + 7 * (off + 2)) % 128,
      (seed + 7 * (off + 3)) % 128, (seed + 7 * (off + 4)) % 128>>

\* C1: for every binary STL buffer that declares N triangles (N = 0 included)
\* and holds at least 84 + 50*N bytes, parseBinary succeeds and returns
\* triangleCount = N, 9N positions read from the records in order, 9N normals
\* in which each record's normal stands three times, no index and no colors.
C1_BinaryDecodesDeclared ==
    (called = "parseBinary" /\ shape.fam = "bin"
        /\ shape.len >= 84 + 50 * shape.declared)
    => /\ ret.status = "ok"
       /\ ret.triangleCount = shape.declared
       /\ Len(ret.position) = 9 * shape.declared
       /\ Len(ret.normal) = 9 * shape.declared
       /\ \A t \in 0..(shape.declared - 1) : \A j \in 0..2 : \A c \in 0..2 :
            /\ ret.normal[9 * t + 3 * j + c + 1]
                 = PayloadFloat(shape.seed, 84 + 50 * t + 4 * c)
            /\ ret.position[9 * t + 3 * j + c + 1]
                 = PayloadFloat(shape.seed, 84 + 50 * t + 12 + 12 * j + 4 * c)
       /\ ~ret.hasIndex /\ ret.index = <<>>
       /\ "color" \notin ret.attributes /\ ret.color = <<>>

\* C1 witness: a buffer of exactly 84 + 50*2 bytes declaring 2 triangles was
\* decoded into 18 positions.
C1_Witness ==
    /\ called = "parseBinary" /\ shape.fam = "bin"
    /\ shape.declared = 2 /\ shape.len = 184
    /\ ret.status = "ok" /\ Len(ret.position) = 18

\* the triangle count bytes 80..83 of a buffer hold, little-endian
DeclaredIn(buf) == buf[81] + 256 * buf[82] + 65536 * buf[83] + 16777216 * buf[84]

\* C2 (as claimed): decoding a buffer shorter than 84 bytes, or shorter than
\* 84 + 50*N bytes for its declared count N, fails.
C2_TruncatedBinaryFails ==
    (called = "parseBinary"
        /\ (Len(arg.bytes) < 84
            \/ (Len(arg.bytes) - 84) \div 50 < DeclaredIn(arg.bytes)))
    => ret.status = "throw"

\* C3 (as claimed): parseSTL on a buffer shorter than 80 bytes fails, and
\* fails before a decoder was chosen.
C3_ShortBufferFailsFirst ==
    (called = "parseSTL" /\ Len(arg.bytes) < 80)
    => (ret.status = "throw" /\ ret.decoder = "none")

\* the first 80 bytes (or fewer) of a buffer, read as bytes
HeadLen(buf) == IF Len(buf) < 80 THEN Len(buf) ELSE 80

WordAt(buf, i, word) ==
    /\ i + Len(word) - 1 <= HeadLen(buf)
    /\ \A k \in 1..Len(word) : buf[i + k - 1] = word[k]

HeadStartsSolid(buf) ==
    \E i \in 1..HeadLen(buf) :
        /\ \A j \in 1..(i - 1) : buf[j] \in {9, 10, 13, 32}
        /\ WordAt(buf, i, <<115, 111, 108, 105, 100>>)

HeadHoldsBinary(buf) ==
    \E i \in 1..HeadLen(buf) : WordAt(buf, i, <<98, 105, 110, 97, 114, 121>>)

\* C4: parseSTL runs the ASCII decoder exactly when the first 80 bytes, white
\* space trimmed, start with "solid" and do not hold "binary"; otherwise it
\* runs the binary decoder; the format tag of a result names the decoder
\* that ran.
C4_DispatchBySniffing ==
    (called = "parseSTL")
    => /\ ret.decoder = (IF HeadStartsSolid(arg.bytes) /\ ~HeadHoldsBinary(arg.bytes)
                         THEN "ascii" ELSE "binary")
       /\ (ret.status = "ok" => ret.format = ret.decoder)

\* C4 witness: "binary" starts at byte 75 and is cut by the 80-byte header,
\* so the text went to the ASCII decoder and gave its one triangle.
C4_Witness ==
    /\ called = "parseSTL" /\ shape.fam = "straddle" /\ shape.at = 75
    /\ ret.format = "ascii" /\ ret.triangleCount = 1

\* the numbers of the complete facet blocks of an "ascii" shape, in order
CompleteBlocks(kinds) ==
    SelectSeq([b \in 1..Len(kinds) |-> b], LAMBDA b : kinds[b] \in CompleteKinds)

\* C5 (as claimed): parseASCII returns triangleCount = the number of complete
\* facet blocks of the text, 9 positions and 9 normals per triangle, each
\* triangle's normal three times, no index and no colors.
C5_CountsCompleteBlocks ==
    (called = "parseASCII" /\ shape.fam = "ascii")
    => /\ ret.triangleCount = Len(CompleteBlocks(shape.kinds))
       /\ Len(ret.position) = 9 * ret.triangleCount
       /\ Len(ret.normal) = 9 * ret.triangleCount
       /\ \A t \in 0..(ret.triangleCount - 1) : \A j \in 1..2 : \A c \in 1..3 :
            ret.normal[9 * t + 3 * j + c] = ret.normal[9 * t + c]
       /\ ~ret.hasIndex /\ "color" \notin ret.attributes

\* C6 (as claimed): a partial block gives no triangle and every triangle has
\* its normal and its three vertices from one complete block: triangle t is
\* the t-th complete block, normal (b 0 1) and vertices (b 1 0) (b 2 0) (b 3 0).
C6_TrianglesFromOneBlock ==
    (called = "parseASCII" /\ shape.fam = "ascii")
    => LET blocks == CompleteBlocks(shape.kinds)
       IN  /\ Len(ret.position) = 9 * Len(blocks)
           /\ Len(ret.normal) = 9 * Len(blocks)
           /\ \A t \in 1..Len(blocks) : \A j \in 1..3 :
                /\ SubSeq(ret.normal, 9 * (t - 1) + 3 * j - 2, 9 * (t - 1) + 3 * j)
                     = <<JsNum(blocks[t]), JsNum(0), JsNum(1)>>
                /\ SubSeq(ret.position, 9 * (t - 1) + 3 * j - 2, 9 * (t - 1) + 3 * j)
                     = <<JsNum(blocks[t]), JsNum(j), JsNum(0)>>

\* C7 (as claimed): a text without one valid facet block decodes to the empty
\* mesh, without an error.
C7_NoValidBlockEmptyMesh ==
    (called = "parseASCII" /\ shape.fam = "ascii"
        /\ CompleteBlocks(shape.kinds) = <<>>)
    => (ret.status = "ok" /\ ret.triangleCount = 0
        /\ ret.position = <<>> /\ ret.normal = <<>>)

\* C8 (as claimed): parsePlyAscii fails when the text has no end_header line
\* or an element vertex / element face line lacks its count.
C8_BadHeaderFails ==
    (called = "parsePlyAscii" /\ shape.fam = "ply"
        /\ (~shape.endHeader \/ shape.vdecl.k = "nocount" \/ shape.fdecl.k = "nocount"))
    => ret.status = "throw"

\* C9 (as claimed): with element vertex N and element face M declared, every
\* successful decode returns exactly 3N positions.
C9_PositionsThreePerDeclared ==
    (called = "parsePlyAscii" /\ shape.fam = "ply" /\ shape.endHeader
        /\ shape.vdecl.k = "count" /\ shape.fdecl.k = "count" /\ ret.status = "ok")
    => Len(ret.position) = 3 * shape.vdecl.n

\* the numeric fields of the lines after end_header of a "ply" shape
BodyFields(sh) ==
    [j \in 1..sh.nrows |->
        <<j, 0, 1>> \o (IF sh.red THEN <<255, 0, 51>> ELSE <<>>)]
    \o [r \in 1..Len(sh.faces) |->
        CASE sh.faces[r] = "tri" -> <<3, 0, 1, r>>
          [] sh.faces[r] = "quad" -> <<4, 0, 1, 2, 3>>
          [] sh.faces[r] = "short" -> <<3, r, 1>>]
    \o (IF sh.trail THEN <<<<0>>>> ELSE <<>>)

\* the lines read as face rows: the M lines after the first N, as far as
\* the text has them
FaceFields(sh) ==
    LET body == BodyFields(sh)
        first == sh.vdecl.n + 1
        last == IF sh.vdecl.n + sh.fdecl.n < Len(body)
                THEN sh.vdecl.n + sh.fdecl.n ELSE Len(body)
    IN  SubSeq(body, first, last)

FieldOr(fields, k) == IF k <= Len(fields) THEN JsNum(fields[k]) ELSE JsUndefined

\* C10: a face row whose first field is not 3 gives no index and no error,
\* and decoding goes on: the indices are, in row order, the three fields
\* after the 3 of every face row whose first field is 3.
C10_NonTriangleRowsSkipped ==
    (called = "parsePlyAscii" /\ shape.fam = "ply" /\ shape.endHeader
        /\ shape.vdecl.k = "count" /\ shape.fdecl.k = "count")
    => LET rows == FaceFields(shape)
           tris == SelectSeq(rows, LAMBDA f : f[1] = 3)
       IN  /\ ret.status = "ok"
           /\ Len(ret.index) = 3 * Len(tris)
           /\ \A k \in 1..Len(tris) : \A c \in 1..3 :
                ret.index[3 * (k - 1) + c] = FieldOr(tris[k], c + 1)

\* C10 witness: the quad row "4 0 1 2 3" came first and the triangle row
\* "3 0 1 2" after it gave the only three indices.
C10_Witness ==
    /\ called = "parsePlyAscii" /\ shape.fam = "ply" /\ shape.endHeader
    /\ shape.vdecl = [k |-> "count", n |-> 2] /\ shape.nrows = 2
    /\ shape.fdecl = [k |-> "count", n |-> 2] /\ shape.faces = <<"quad", "tri">>
    /\ ret.status = "ok"
    /\ ret.index = <<JsNum(0), JsNum(1), JsNum(2)>>

\* C11 (as claimed): every mesh parsePlyAscii returns has a number of indices
\* divisible by 3 and every index an integer from 0 to below the number of
\* decoded vertices (positions.length / 3), also when a face row names a
\* vertex that does not exist or has fewer than 4 fields.
C11_IndicesInRange ==
    (called = "parsePlyAscii" /\ shape.fam = "ply" /\ ret.status = "ok")
    => /\ Len(ret.index) % 3 = 0
       /\ \A i \in 1..Len(ret.index) :
            /\ ret.index[i].t = "num"
            /\ 0 <= ret.index[i].v
            /\ ret.index[i].v < Len(ret.position) \div 3

\* whether the header of a "ply" or "plycolor" shape has a red property line
HeaderDeclaresRed(sh) ==
    IF sh.fam = "ply" THEN sh.red ELSE sh.redAt # "none"

\* C12 (as claimed): in every mesh parsePlyAscii returns, colors is present
\* only if the header declared a red property, and whenever colors is
\* present it is as long as positions, also when vertex rows have fewer
\* than 6 fields.
C12_ColorsMatchPositions ==
    (called = "parsePlyAscii" /\ shape.fam \in {"ply", "plycolor"}
        /\ ret.status = "ok")
    => /\ "color" \in ret.attributes => HeaderDeclaresRed(shape)
       /\ "color" \in ret.attributes => Len(ret.color) = Len(ret.position)

\* C13 (as claimed): on every input that decodes, the fCount parsePlyAscii
\* reports equals indices.length / 3 of its mesh (also with skipped
\* non-triangle rows or fewer face rows than declared), and the
\* triangleCount the STL decoders report equals positions.length / 9.
C13_CountsMatchBuffers ==
    /\ (called = "parsePlyAscii" /\ shape.fam \in {"ply", "plycolor"}
            /\ ret.status = "ok")
       => (Len(ret.index) % 3 = 0 /\ ret.fCount = JsNum(Len(ret.index) \div 3))
    /\ (called \in {"parseSTL", "parseBinary", "parseASCII"} /\ ret.status = "ok")
       => 9 * ret.triangleCount = Len(ret.position)

C16_ColorFromVertexPropertiesOnly ==
    (called = "parsePlyAscii" /\ shape.fam = "plycolor"
        /\ shape.redAt \in {"before", "face"})
    => (ret.status = "ok" /\ ~ret.hasColors /\ "color" \notin ret.attributes)

InProgress(l) == l <= Len(loads) /\ loads[l].pc \notin {"animating", "failed"}

LoadAlerts(l) == SelectSeq(alerts, LAMBDA a : a.load = l)

\* C15: in the OBJ load a texture that fails (downloadAsync throws, the
\* texture loader reports an error or throws) does not abort the load: the
\* step in which it fails raises no alert for it and leaves the loop at the
\* next material or, after the last one, goes through objLoader.parse; a
\* load ends failed only by an error of another step, so with objLoader.parse
\* succeeding the object is installed; and each wait for a texture ends.
C15_TextureFailureDoesNotAbort ==
    /\ [][\A l \in 1..MaxLoads :
            (l <= Len(loads) /\ loads'[l].texFailed > loads[l].texFailed)
            => /\ Len(loads'[l].mats) < Len(loads[l].mats)
               /\ loads'[l].pc \in {"downloadAsync", "animating", "failed"}
               /\ loads'[l].pc = "failed" =>
                    (loads'[l].err = "objLoader.parse" /\ Len(alerts') = Len(alerts) + 1)
               /\ loads'[l].pc # "failed" => alerts' = alerts
               /\ loads'[l].pc = "animating" => (meshRef' = l /\ ~loading')]_vars
    /\ [](\A l \in 1..Len(loads) :
            /\ loads[l].pc = "failed" => loads[l].err # "texture"
            /\ loads[l].pc # "failed" => LoadAlerts(l) = <<>>)
    /\ \A l \in 1..MaxLoads :
            /\ Awaits(l, "downloadAsync") ~> ~Awaits(l, "downloadAsync")
            /\ Awaits(l, "TextureLoader.load") ~> ~Awaits(l, "TextureLoader.load")
            /\ InProgress(l) ~> ~InProgress(l)

\* C15 witness: an OBJ load met two failed textures and still ended with
\* its object installed and without an alert.
C15_Witness ==
    /\ viewer = "obj"
    /\ Len(loads) >= 1
    /\ loads[1].texFailed = 2
    /\ loads[1].pc = "animating"
    /\ meshRef = 1
    /\ ~loading
    /\ alerts = <<>>

\* C17: a load that has set loading to true ends: every load in progress
\* comes to its end, the step that ends it leaves loading false, and loading
\* does not stay true; a load that failed in fetch, read or decode has
\* raised exactly one alert, titled as its viewer's load error and with a
\* message, and has not installed a mesh.
C17_LoadingEnds ==
    /\ \A l \in 1..MaxLoads : InProgress(l) ~> ~InProgress(l)
    /\ loading ~> ~loading
    /\ [][\A l \in 1..MaxLoads : (InProgress(l) /\ ~InProgress(l)') => ~loading']_vars
    /\ [](\A l \in 1..Len(loads) :
            /\ InProgress(l) => LoadAlerts(l) = <<>>
            /\ loads[l].pc = "failed" =>
                 /\ Len(LoadAlerts(l)) = 1
                 /\ LoadAlerts(l)[1].title = LoadErrorTitle
                 /\ LoadAlerts(l)[1].message # ""
                 /\ meshRef # l)

\* C17 witness: a load failed while decoding, on an error without message:
\* one alert with the fallback message, loading false, no mesh.
C17_Witness ==
    /\ Len(loads) = 1
    /\ loads[1].pc = "failed"
    /\ loads[1].err \in {"parseSTL", "parsePlyAscii", "objLoader.parse"}
    /\ ~loading
    /\ meshRef = 0
    /\ alerts = <<[title |-> LoadErrorTitle, message |-> "Could not load file",
                   load |-> 1]>>

\* C18: the loads started never outnumber the files picked, every load
\* started with a file selected, and no two loads started for the same
\* picked file.
C18_OneLoadPerPick ==
    /\ Len(loads) <= picks
    /\ \A l \in 1..Len(loads) : loads[l].fileUri # NoFile
    /\ \A l, m \in 1..Len(loads) : l # m => loads[l].fileUri # loads[m].fileUri

\* C18 witness: after a pick, a load, a reset and a second pick the second
\* load has started, and hasLoadedRef is set again.
C18_Witness ==
    /\ picks = 2
    /\ Len(loads) = 2
    /\ loads[1].fileUri = 1 /\ loads[1].pc = "animating"
    /\ loads[2].fileUri = 2
    /\ hasLoadedRef

\* C19: in the STL and PLY viewers the z of every camera is inside the zoom
\* range of the viewer, and a two-finger move changes a camera only when
\* lastPinch holds a distance, which a two-finger move recorded after the
\* last release.
C19_ZoomStaysInRange ==
    /\ [](viewer \in {"stl", "ply"} =>
            \A l \in 1..Len(loads) :
                loads[l].cameraZ >= ZoomMin /\ loads[l].cameraZ <= ZoomMax)
    /\ [][(\E dx \in DragPixels, dist \in PinchDistances :
                onPanResponderMove(2, dx, dist) /\ loads' # loads)
            => lastPinch # NoPinch]_vars
    /\ [][(lastPinch = NoPinch /\ lastPinch' # NoPinch)
            => \E dx \in DragPixels, dist \in PinchDistances :
                    onPanResponderMove(2, dx, dist)]_vars

\* C19 witness: in the PLY viewer a pinch has just put the camera at the
\* near end of the range.
C19_Witness ==
    /\ viewer = "ply"
    /\ cameraRef # 0 /\ meshRef # 0
    /\ lastPinch = 5000
    /\ loads[cameraRef].cameraZ = PlyZoomMin

\* C20 (as claimed): in every animation frame the mesh's rotation.y
\* advances by 0.01 if and only if autoRotate is true at that frame.
C20_AnimationFollowsToggle ==
    [][\A l \in 1..MaxLoads :
            animate(l) => ((rotationY' = rotationY + RotationStep) <=> autoRotate)]_vars

====
